---- MODULE Spec2Model ----
(***************************************************************************)
(* Model of roboticstoolbox/robot/Dynamics.py: the forward-dynamics        *)
(* integration loop (fdyn, _fdyn, accel), the payload-capacity analysis    *)
(* (paycap, pay, gravload), the robot variants (nofriction, perterb,       *)
(* payload) and the argument handling and results of accel, inertia,       *)
(* coriolis, itorque, gravload and pay.                                    *)
(*                                                                         *)
(* Numbers are exact: joint quantities are integers, interpolated and      *)
(* divided quantities are reduced fractions, and the IEEE special values   *)
(* (inf, -inf, nan) that numpy produces on division by zero are explicit.  *)
(***************************************************************************)
EXTENDS Integers, Sequences, FiniteSets, TLC

VARIABLES args, runs, pcall, heap, call

vars == <<args, runs, pcall, heap, call>>

(***************************************************************************)
(* Sizes of the explored instances.                                        *)
(***************************************************************************)
\* number of joints of the robot that fdyn integrates
NJ == 2
\* largest integration time T, in ticks
MaxT == 2
\* largest number of derivative evaluations in one integrator step or in
\* the integrator's constructor
MaxEvals == 2

(***************************************************************************)
(* Vectors and matrices.                                                   *)
(***************************************************************************)
Zeros(n) == [i \in 1..n |-> 0]

Ones(n) == [i \in 1..n |-> 1]

Unit(n, j) == [i \in 1..n |-> IF i = j THEN 1 ELSE 0]

VAdd(a, b) == [i \in 1..Len(a) |-> a[i] + b[i]]

VSub(a, b) == [i \in 1..Len(a) |-> a[i] - b[i]]

VScale(c, a) == [i \in 1..Len(a) |-> c * a[i]]

Abs(x) == IF x < 0 THEN -x ELSE x

Sign(x) == IF x > 0 THEN 1 ELSE IF x < 0 THEN -1 ELSE 0

RECURSIVE SumTo(_, _)
SumTo(f, k) == IF k = 0 THEN 0 ELSE f[k] + SumTo(f, k - 1)

Dot(a, b) == SumTo([i \in 1..Len(a) |-> a[i] * b[i]], Len(a))

MatVec(A, v) == [i \in 1..Len(A) |-> Dot(A[i], v)]

\* A without row r and column c
Minor(A, r, c) ==
    [i \in 1..(Len(A) - 1) |->
        [j \in 1..(Len(A) - 1) |->
            A[IF i < r THEN i ELSE i + 1][IF j < c THEN j ELSE j + 1]]]

RECURSIVE Det(_)
Det(A) ==
    IF Len(A) = 0 THEN 1
    ELSE IF Len(A) = 1 THEN A[1][1]
    ELSE SumTo([j \in 1..Len(A) |->
                  (IF j % 2 = 1 THEN 1 ELSE -1) * A[1][j] * Det(Minor(A, 1, j))],
               Len(A))

\* np.linalg.inv: adjugate over determinant (the model's mass matrices have
\* determinant 1, so the division is exact)
MatInv(A) ==
    [i \in 1..Len(A) |->
        [j \in 1..Len(A) |->
            ((IF (i + j) % 2 = 0 THEN 1 ELSE -1) * Det(Minor(A, j, i)))
                \div Det(A)]]

RECURSIVE Gcd(_, _)
Gcd(a, b) == IF b = 0 THEN a ELSE Gcd(b, a % b)

\* the fraction n/d, d # 0, in lowest terms with a positive denominator
Rat(n, d) ==
    LET g == Gcd(Abs(n), Abs(d))
        s == IF d < 0 THEN -1 ELSE 1
    IN  [num |-> (s * n) \div g, den |-> (s * d) \div g]

RatOfInt(x) == [num |-> x, den |-> 1]

(***************************************************************************)
(* The inverse-dynamics oracle rne(q, qd, qdd, grav) of the robot:         *)
(*   torque = M qdd + viscous friction + gravity load                      *)
(* The mass matrix is constant, symmetric, positive definite and of        *)
(* determinant 1; a constant mass matrix has no Coriolis or centripetal    *)
(* coupling.  Viscous friction is qd[i] on every joint, and every joint    *)
(* carries the z component of gravity.                                     *)
(***************************************************************************)
MassMatrix(n) ==
    [i \in 1..n |->
        [j \in 1..n |->
            IF i = j THEN (IF i = 1 THEN 1 ELSE 2)
            ELSE IF Abs(i - j) = 1 THEN 1 ELSE 0]]

rne(n, q, qd, qdd, grav) ==
    [i \in 1..n |-> MatVec(MassMatrix(n), qdd)[i] + qd[i] + grav[3]]

(***************************************************************************)
(* accel(q, qd, torque), single configuration (lines 290-310).             *)
(***************************************************************************)
\* m = self.rne(qI, qdI, qddI, grav=[0, 0, 0]): column j is the torque for
\* unit acceleration of joint j
accel_m(n, q) ==
    [i \in 1..n |->
        [j \in 1..n |-> rne(n, q, Zeros(n), Unit(n, j), <<0, 0, 0>>)[i]]]

\* the variant of line 303 that leaves gravity out of the bias torque
accel_zero_gravity(self, q, qd, torque) ==
    LET n == self.n
        tau == rne(n, q, qd, Zeros(n), <<0, 0, 0>>)
    IN  MatVec(MatInv(accel_m(n, q)), VSub(torque, tau))

accel(self, q, qd, torque) ==
    LET n == self.n
        tau == rne(n, q, qd, Zeros(n), self.gravity)
    IN  MatVec(MatInv(accel_m(n, q)), VSub(torque, tau))

(***************************************************************************)
(* fdyn: arguments.                                                        *)
(*   args.self      the robot: n joints and its gravity vector             *)
(*   args.T         integration time (a scalar)                            *)
(*   args.q0        initial joint coordinates                              *)
(*   args.qd0Given, args.qd0   initial joint velocities, or omitted        *)
(*   args.torqfun   "none" or "law": whether a torque law is supplied      *)
(*   args.dtGiven, args.dt     output interval, or omitted                 *)
(* The two runs runs[FALSE] and runs[TRUE] are fdyn called with these      *)
(* arguments and progress = FALSE, progress = TRUE; the integrator and the *)
(* torque law are deterministic, so both runs see the same step sizes, the *)
(* same evaluation points and the same torque-law results.                 *)
(***************************************************************************)
Flags == BOOLEAN

Robots == {[n |-> NJ, gravity |-> <<0, 0, g>>] : g \in {0, 1}}

TRange == (-1)..MaxT

Q0Set(n) == {[i \in 1..n |-> i]}

Qd0Set(n) == {Zeros(n), Ones(n)}

FdynArgs ==
    {[self |-> r, T |-> T, q0 |-> q0, qd0Given |-> g, qd0 |-> qd0,
      torqfun |-> f, dtGiven |-> d, dt |-> dt] :
        r \in Robots, T \in TRange, q0 \in Q0Set(NJ), g \in BOOLEAN,
        qd0 \in Qd0Set(NJ), f \in {"none", "law"}, d \in BOOLEAN,
        dt \in 1..MaxT}

\* the arguments that differ only in a value fdyn never reads are one call
ValidArgs ==
    {a \in FdynArgs : /\ (~a.qd0Given => a.qd0 = Zeros(NJ))
                      /\ (~a.dtGiven => a.dt = 1)}

(***************************************************************************)
(* Values a torque law can return: a sequence of complex numbers           *)
(* [re, im]; np.isreal(x) is x.im = 0.                                     *)
(***************************************************************************)
RealVec(len, v) == [i \in 1..len |-> [re |-> v, im |-> 0]]

ComplexAt(len, k) ==
    [i \in 1..len |-> [re |-> 0, im |-> IF i = k THEN 1 ELSE 0]]

TauReturns(n) ==
    {RealVec(n, 1), RealVec(n - 1, 0), RealVec(n + 1, 0), ComplexAt(n, n)}

Re(tau) == [i \in 1..Len(tau) |-> tau[i].re]

\* all(np.isreal(tau))
AllReal(tau) == \A i \in 1..Len(tau) : tau[i].im = 0

\* the variant of the check at line 230 that tests the length only
ContractViolatedLenOnly(tau, n) == Len(tau) # n

\* line 230: len(tau) != n or not all(np.isreal(tau))
ContractViolated(tau, n) == Len(tau) # n \/ ~AllReal(tau)

\* the variant of line 227 that applies unit torque when no law is given
OnesTorque(n) == RealVec(n, 1)

\* line 227: tau = np.zeros((n,))
ZeroTorque(n) == RealVec(n, 0)

\* the variant of _fdyn that evaluates the law twice (once to validate)
TorqfunCallsTwice(torqfun) == IF torqfun = "none" THEN 0 ELSE 2

\* lines 226-229: calls of torqfun made by one call of _fdyn
TorqfunCalls(torqfun) == IF torqfun = "none" THEN 0 ELSE 1

(***************************************************************************)
(* One fdyn run: the integrator object and fdyn's locals.                  *)
(*   pc         "call", "construct" (inside the integrator's constructor), *)
(*              "loop" (at the while test), "step" (inside                 *)
(*              integrator.step), "stepped" (step returned, line 172),     *)
(*              "done" (returned), "error" (raised)                        *)
(*   status, t, y   integrator.status, integrator.t, integrator.y          *)
(*   h, evalsLeft   the step being attempted and the derivative            *)
(*                  evaluations the integrator still makes in it           *)
(*   stage      derivative evaluations made so far in this step (or in the *)
(*              constructor)                                               *)
(*   k          the derivative returned by the last evaluation             *)
(*   tlist, xlist   the stashed samples                                    *)
(*   returned, result, error   how the call ended                          *)
(*   nstep, nfdyn, ntorq, naccel   calls of integrator.step, _fdyn,        *)
(*                  torqfun and accel so far                               *)
(*   nbad       torque-law results so far that break the law's contract    *)
(*   atBad      <<nstep, nfdyn, naccel>> when the last such result came    *)
(*   failedAt   number of samples stashed when the integrator failed,      *)
(*              or -1                                                      *)
(***************************************************************************)
NoResult == [t |-> <<>>, q |-> <<>>, qd |-> <<>>]

NewRun(a, progress) ==
    [progress |-> progress, pc |-> "call", status |-> "none", t |-> 0,
     y |-> Zeros(2 * a.self.n), h |-> 0, evalsLeft |-> 0, stage |-> 0,
     k |-> Zeros(2 * a.self.n), tlist |-> <<>>, xlist |-> <<>>,
     returned |-> FALSE, result |-> NoResult, error |-> "none",
     nstep |-> 0, nfdyn |-> 0, ntorq |-> 0, naccel |-> 0, nbad |-> 0,
     atBad |-> <<0, 0, 0>>, failedAt |-> -1]

Raise(r, e) == [r EXCEPT !.pc = "error", !.error = e]

\* a torque-law result that is not a real vector of length n
BadTorque(tau, n) == Len(tau) # n \/ \E i \in 1..Len(tau) : tau[i].im # 0

(***************************************************************************)
(* Lines 133-158: argument handling and construction of the integrator.    *)
(* The integrator evaluates the derivative k0 times in its constructor,    *)
(* to choose its first step from a trial step of one tick towards T.       *)
(***************************************************************************)
fdyn_call(r, a, k0) ==
    LET x0 == a.q0 \o a.qd0
    IN  [r EXCEPT !.pc = "construct", !.status = "running", !.t = 0,
                  !.y = x0, !.evalsLeft = k0, !.stage = 0,
                  !.h = IF a.T < 0 THEN -1 ELSE 1]

(***************************************************************************)
(* Lines 156, 200-235: one derivative evaluation lambda t, y: _fdyn(...).  *)
(* The integrator is an explicit one-step scheme: its first evaluation of  *)
(* a step is at y, a later one at y + h * k, k the derivative it got from  *)
(* the evaluation before; ret is what the torque law returns there.        *)
(***************************************************************************)
_fdyn(r, a, ret) ==
    LET n == a.self.n
        x == IF r.stage = 0 THEN r.y ELSE VAdd(r.y, VScale(r.h, r.k))
        q == [i \in 1..n |-> x[i]]
        qd == [i \in 1..n |-> x[n + i]]
        tau == IF a.torqfun = "none" THEN ZeroTorque(n) ELSE ret
        bad == a.torqfun # "none" /\ BadTorque(ret, n)
        called == [r EXCEPT !.nfdyn = @ + 1,
                            !.ntorq = @ + TorqfunCalls(a.torqfun),
                            !.nbad = @ + (IF bad THEN 1 ELSE 0),
                            !.atBad = IF bad
                                      THEN <<r.nstep, r.nfdyn + 1, r.naccel>>
                                      ELSE @]
    IN  IF a.torqfun # "none" /\ ContractViolated(tau, n)
        THEN Raise(called, "RuntimeError")
        ELSE [called EXCEPT !.naccel = @ + 1,
                            !.k = qd \o accel(a.self, q, qd, Re(tau)),
                            !.evalsLeft = @ - 1, !.stage = @ + 1]

(***************************************************************************)
(* Lines 180-181 and 1082-1087: the progress bar is drawn from the         *)
(* fraction integrator.t / T.                                              *)
(***************************************************************************)
ProgressRaises(progress, T) == progress /\ T = 0

\* lines 160-165: the sample lists start with (0, x0)
fdyn_constructed(r, a) ==
    [r EXCEPT !.pc = "loop", !.tlist = <<0>>, !.xlist = <<a.q0 \o a.qd0>>]

(***************************************************************************)
(* Line 170: integrator.step().  At t = t_bound the step only marks the    *)
(* integrator finished; otherwise it attempts a step of size h with kn     *)
(* derivative evaluations.                                                 *)
(***************************************************************************)
StepSizes(r, a) ==
    IF a.T >= r.t THEN 1..(a.T - r.t) ELSE {-d : d \in 1..(r.t - a.T)}

step_begin(r, a, h, kn) ==
    IF r.t = a.T
    THEN [r EXCEPT !.nstep = @ + 1, !.status = "finished", !.pc = "stepped"]
    ELSE [r EXCEPT !.nstep = @ + 1, !.pc = "step", !.h = h, !.evalsLeft = kn,
                   !.stage = 0]

\* the step attempt ends: accepted (t and y advance) or failed
step_end(r, a, success) ==
    IF success
    THEN [r EXCEPT !.pc = "stepped", !.t = @ + r.h,
                   !.y = VAdd(r.y, VScale(r.h, r.k)),
                   !.status = IF r.t + r.h = a.T THEN "finished" ELSE "running"]
    ELSE [r EXCEPT !.pc = "stepped", !.status = "failed",
                   !.failedAt = Len(r.tlist)]

\* the variant of line 172 that never sees the failure
StepFailedIgnored(r) == FALSE

\* line 172: integrator.status == 'failed'
StepFailed(r) == r.status = "failed"

\* lines 172-181: the loop body after the step
after_step(r, a) ==
    IF StepFailed(r)
    THEN Raise(r, "RuntimeError")
    ELSE LET stashed == [r EXCEPT !.tlist = Append(@, r.t),
                                  !.xlist = Append(@, r.y)]
         IN  IF ProgressRaises(r.progress, a.T)
             THEN Raise(stashed, "ZeroDivisionError")
             ELSE [stashed EXCEPT !.pc = "loop"]

(***************************************************************************)
(* Lines 187-198: the returned trajectory.                                 *)
(***************************************************************************)
\* the variant of np.arange that keeps the end point
ArangeInclusive(stop, step) ==
    IF stop < 0 THEN <<>>
    ELSE [i \in 1..((stop \div step) + 1) |-> (i - 1) * step]

\* np.arange(0, stop, step), step > 0: ceil(stop / step) values
Arange(stop, step) ==
    IF stop <= 0 THEN <<>>
    ELSE [i \in 1..((stop + step - 1) \div step) |-> (i - 1) * step]

SeqMin(s) == CHOOSE x \in {s[i] : i \in 1..Len(s)} :
                \A i \in 1..Len(s) : x <= s[i]

SeqMax(s) == CHOOSE x \in {s[i] : i \in 1..Len(s)} :
                \A i \in 1..Len(s) : x >= s[i]

\* 0/0, what linear interpolation gives inside a segment of zero width
NaNRat == [num |-> 0, den |-> 0]

\* interpolate.interp1d(tarray, xarray, axis=0)(tq): linear interpolation
\* in the segment of the samples that holds tq
InterpAt(tl, xl, tq) ==
    LET i == CHOOSE s \in 1..(Len(tl) - 1) :
                 \/ (tl[s] <= tq /\ tq <= tl[s + 1])
                 \/ (tl[s + 1] <= tq /\ tq <= tl[s])
        w == tl[i + 1] - tl[i]
    IN  [j \in 1..Len(xl[i]) |->
            IF w = 0 THEN NaNRat
            ELSE Rat(xl[i][j] * w + (xl[i + 1][j] - xl[i][j]) * (tq - tl[i]), w)]

\* interp1d raises ValueError for a time outside the samples' span
OutOfRange(tl, tnew) ==
    \E i \in 1..Len(tnew) : tnew[i] < SeqMin(tl) \/ tnew[i] > SeqMax(tl)

Trajectory(n, ts, xs) ==
    [t |-> ts,
     q |-> [i \in 1..Len(xs) |-> [j \in 1..n |-> xs[i][j]]],
     qd |-> [i \in 1..Len(xs) |-> [j \in 1..n |-> xs[i][n + j]]]]

fdyn_return(r, a) ==
    LET n == a.self.n
        tnew == Arange(a.T, a.dt)
        xnew == [i \in 1..Len(tnew) |-> InterpAt(r.tlist, r.xlist, tnew[i])]
        xraw == [i \in 1..Len(r.xlist) |->
                    [j \in 1..(2 * n) |-> RatOfInt(r.xlist[i][j])]]
    IN  IF a.dtGiven
        THEN IF OutOfRange(r.tlist, tnew)
             THEN Raise(r, "ValueError")
             ELSE [r EXCEPT !.pc = "done", !.returned = TRUE,
                            !.result = Trajectory(n, tnew, xnew)]
        ELSE [r EXCEPT !.pc = "done", !.returned = TRUE,
                       !.result = Trajectory(n, r.tlist, xraw)]

(***************************************************************************)
(* Actions.  Each applies one piece of fdyn to every run that is at it.    *)
(***************************************************************************)
Some(At(_)) == \E p \in Flags : At(runs[p])

Each(At(_), Do(_)) ==
    [p \in Flags |-> IF At(runs[p]) THEN Do(runs[p]) ELSE runs[p]]

FdynCall ==
    \E k0 \in 0..MaxEvals :
        LET At(r) == r.pc = "call"
            Do(r) == fdyn_call(r, args, k0)
        IN  /\ Some(At)
            /\ runs' = Each(At, Do)
            /\ UNCHANGED <<args, pcall, heap, call>>

DerivEval ==
    \E ret \in TauReturns(args.self.n) :
        LET At(r) == r.pc \in {"construct", "step"} /\ r.evalsLeft > 0
            Do(r) == _fdyn(r, args, ret)
        IN  /\ Some(At)
            /\ (args.torqfun = "none" => ret = RealVec(args.self.n, 1))
            /\ runs' = Each(At, Do)
            /\ UNCHANGED <<args, pcall, heap, call>>

Constructed ==
    LET At(r) == r.pc = "construct" /\ r.evalsLeft = 0
        Do(r) == fdyn_constructed(r, args)
    IN  /\ Some(At)
        /\ runs' = Each(At, Do)
        /\ UNCHANGED <<args, pcall, heap, call>>

IntegratorStep ==
    \E h \in {-1} \cup (1..MaxT), kn \in 1..MaxEvals :
        LET At(r) == /\ r.pc = "loop" /\ r.status = "running"
                     /\ (r.t # args.T => h \in StepSizes(r, args))
                     /\ (r.t = args.T => h = 1 /\ kn = 1)
            Do(r) == step_begin(r, args, h, kn)
        IN  /\ Some(At)
            /\ runs' = Each(At, Do)
            /\ UNCHANGED <<args, pcall, heap, call>>

StepImplEnd ==
    \E success \in BOOLEAN :
        LET At(r) == r.pc = "step" /\ r.evalsLeft = 0
            Do(r) == step_end(r, args, success)
        IN  /\ Some(At)
            /\ runs' = Each(At, Do)
            /\ UNCHANGED <<args, pcall, heap, call>>

AfterStep ==
    LET At(r) == r.pc = "stepped"
        Do(r) == after_step(r, args)
    IN  /\ Some(At)
        /\ runs' = Each(At, Do)
        /\ UNCHANGED <<args, pcall, heap, call>>

FdynReturn ==
    LET At(r) == r.pc = "loop" /\ r.status # "running"
        Do(r) == fdyn_return(r, args)
    IN  /\ Some(At)
        /\ runs' = Each(At, Do)
        /\ UNCHANGED <<args, pcall, heap, call>>

PcallIdle == [pc |-> "idle"]

HeapIdle == <<>>

CallIdle == [pc |-> "idle"]

Init ==
    /\ args \in ValidArgs
    /\ runs = [p \in Flags |-> NewRun(args, p)]
    /\ pcall = PcallIdle
    /\ heap = HeapIdle
    /\ call = CallIdle

Next ==
    \/ FdynCall
    \/ DerivEval
    \/ Constructed
    \/ IntegratorStep
    \/ StepImplEnd
    \/ AfterStep
    \/ FdynReturn

Spec == Init /\ [][Next]_vars

(***************************************************************************)
(* IEEE floating-point values as numpy produces them in paycap: a finite   *)
(* value is the fraction num/den in lowest terms, zero carries its sign    *)
(* (neg), and division by zero gives inf, -inf or nan instead of raising.  *)
(***************************************************************************)
FNaN == [k |-> "nan", num |-> 0, den |-> 1, neg |-> FALSE]

FInf == [k |-> "inf", num |-> 0, den |-> 1, neg |-> FALSE]

FNInf == [k |-> "ninf", num |-> 0, den |-> 1, neg |-> TRUE]

\* the finite value n/d, d # 0; s is the sign given to a zero
FFrac(n, d, s) ==
    LET x == Rat(n, d)
    IN  [k |-> "fin", num |-> x.num, den |-> x.den,
         neg |-> IF x.num = 0 THEN s ELSE x.num < 0]

FInt(x) == FFrac(x, 1, FALSE)

FIsZero(x) == x.k = "fin" /\ x.num = 0

FSigned(neg) == IF neg THEN FNInf ELSE FInf

\* unary minus
FNeg(x) ==
    IF x.k = "nan" THEN FNaN
    ELSE IF x.k = "inf" THEN FNInf
    ELSE IF x.k = "ninf" THEN FInf
    ELSE FFrac(-x.num, x.den, ~x.neg)

FMul(x, y) ==
    IF x.k = "nan" \/ y.k = "nan" THEN FNaN
    ELSE IF x.k # "fin" \/ y.k # "fin"
         THEN IF FIsZero(x) \/ FIsZero(y) THEN FNaN
              ELSE FSigned(x.neg # y.neg)
    ELSE FFrac(x.num * y.num, x.den * y.den, x.neg # y.neg)

FAdd(x, y) ==
    IF x.k = "nan" \/ y.k = "nan" THEN FNaN
    ELSE IF x.k # "fin" /\ y.k # "fin"
         THEN IF x.k = y.k THEN x ELSE FNaN
    ELSE IF x.k # "fin" THEN x
    ELSE IF y.k # "fin" THEN y
    ELSE FFrac(x.num * y.den + y.num * x.den, x.den * y.den,
               x.neg /\ y.neg)

FSub(x, y) == FAdd(x, FNeg(y))

FDiv(x, y) ==
    IF x.k = "nan" \/ y.k = "nan" THEN FNaN
    ELSE IF x.k # "fin" /\ y.k # "fin" THEN FNaN
    ELSE IF x.k # "fin" THEN FSigned(x.neg # y.neg)
    ELSE IF y.k # "fin" THEN FFrac(0, 1, x.neg # y.neg)
    ELSE IF y.num = 0
         THEN IF x.num = 0 THEN FNaN ELSE FSigned(x.neg # y.neg)
    ELSE FFrac(x.num * y.den, x.den * y.num, x.neg # y.neg)

\* x < y; false when either is nan
FLess(x, y) ==
    IF x.k = "nan" \/ y.k = "nan" THEN FALSE
    ELSE IF x.k = "ninf" THEN y.k # "ninf"
    ELSE IF y.k = "inf" THEN x.k # "inf"
    ELSE IF x.k = "inf" \/ y.k = "ninf" THEN FALSE
    ELSE x.num * y.den < y.num * x.den

\* x > 0 and x <= 0; both false for nan
FPositive(x) == FLess(FInt(0), x)

FNonPositive(x) == x.k # "nan" /\ ~FPositive(x)

\* the sum s[1] + ... + s[k], left to right as the matrix product adds
RECURSIVE FSum(_, _)
FSum(s, k) == IF k = 1 THEN s[1] ELSE FAdd(FSum(s, k - 1), s[k])

\* np.argmin: the first index of a nan if there is one, else the first
\* index of the smallest value
ArgMin(s) ==
    IF \E i \in 1..Len(s) : s[i].k = "nan"
    THEN CHOOSE i \in 1..Len(s) :
             s[i].k = "nan" /\ \A j \in 1..(i - 1) : s[j].k # "nan"
    ELSE CHOOSE i \in 1..Len(s) :
             /\ \A j \in 1..Len(s) : ~FLess(s[j], s[i])
             /\ \A j \in 1..(i - 1) : FLess(s[i], s[j])

(***************************************************************************)
(* The kinematic collaborator: the 6 x n Jacobian at q in the base frame   *)
(* (jacob0) and in the end-effector frame (jacobe).                        *)
(***************************************************************************)
\* rows of a wrench and of the Jacobian
WrenchDim == 6

jacob0(n, q) ==
    [k \in 1..WrenchDim |-> [c \in 1..n |-> IF k = c THEN q[c] ELSE 0]]

jacobe(n, q) ==
    [k \in 1..WrenchDim |-> [c \in 1..n |-> IF k = 3 THEN q[c] ELSE 0]]

(***************************************************************************)
(* gravload(q), single configuration with the robot's stored gravity       *)
(* (lines 933-954).                                                        *)
(***************************************************************************)
gravload(self, q) ==
    rne(self.n, q, Zeros(self.n), Zeros(self.n), self.gravity)

(***************************************************************************)
(* pay(W, q=q, frame=frame), single wrench, no Jacobian given              *)
(* (lines 418-424): tau = -J.T @ W, the negated Jacobian times W.          *)
(***************************************************************************)
pay(self, W, q, frame) ==
    LET J == IF frame # 0 THEN jacobe(self.n, q) ELSE jacob0(self.n, q)
    IN  [c \in 1..self.n |->
            FSum([k \in 1..WrenchDim |-> FMul(FNeg(FInt(J[k][c])), W[k])],
                 WrenchDim)]

(***************************************************************************)
(* paycap(w, tauR, frame, q), single configuration (lines 996-1046).       *)
(***************************************************************************)
\* np.linalg.norm(w); the wrenches of the model have an integer norm
Norm(w) ==
    LET ss == SumTo([k \in 1..Len(w) |-> w[k] * w[k]], Len(w))
    IN  CHOOSE s \in 0..ss : s * s = ss

\* line 1022: w / np.linalg.norm(w)
UnitWrench(w) == [k \in 1..Len(w) |-> FDiv(FInt(w[k]), FInt(Norm(w)))]

\* lines 1024-1036: the scaling factor of joint c, which stays 0 where
\* neither mask selects the joint
paycap_WM(tauR, tauB, tauP, c) ==
    IF FPositive(tauP[c])
    THEN FDiv(FSub(FInt(tauR[c][1]), FInt(tauB[c])), tauP[c])
    ELSE IF FNonPositive(tauP[c])
    THEN FDiv(FSub(FInt(tauR[c][2]), FInt(tauB[c])), tauP[c])
    ELSE FInt(0)

\* line 1038: WM[WM == np.NINF] = np.Inf
paycap_clamp(x) == IF x = FNInf THEN FInf ELSE x

\* line 1040, wmax[:, i] = WM: a vector of n values is assigned to 6 places,
\* which numpy does for n = 6 and, by broadcasting, for n = 1
Broadcasts(n) == n = WrenchDim \/ n = 1

paycap(c) ==
    LET self == c.self
        n == self.n
        q == IF c.qGiven THEN c.q ELSE self.q
        tauB == gravload(self, q)
        tauP == pay(self, UnitWrench(c.w), q, c.frame)
        WM == [j \in 1..n |-> paycap_clamp(paycap_WM(c.tauR, tauB, tauP, j))]
        run == [c EXCEPT !.tauB = tauB, !.tauP = tauP, !.WM = WM]
    IN  IF ~Broadcasts(n)
        THEN [run EXCEPT !.pc = "error", !.error = "ValueError"]
        ELSE [run EXCEPT !.pc = "done",
                         !.wmax = [k \in 1..WrenchDim |->
                                      IF n = 1 THEN WM[1] ELSE WM[k]],
                         !.joint = ArgMin(WM) - 1]

(***************************************************************************)
(* paycap applied to bounded inputs.                                       *)
(***************************************************************************)
Ramp(n) == [c \in 1..n |-> c - 2]

PaycapRobots ==
    {[n |-> n, gravity |-> <<0, 0, g>>, q |-> Ramp(n)] :
        n \in {NJ, WrenchDim}, g \in {0, 1}}

Wrenches ==
    {<<0, 0, 0, 0, 0, 0>>, <<0, 0, 2, 0, 0, 0>>, <<3, 4, 0, 0, 0, 0>>,
     <<0, 0, -1, 0, 0, 0>>}

\* rows <<maximum, minimum>>
TorqueLimits(n) ==
    {[c \in 1..n |-> <<2, -2>>], [c \in 1..n |-> <<2, 0>>],
     [c \in 1..n |-> <<c, -c>>]}

PaycapCalls ==
    {[pc |-> "call", self |-> r, w |-> w, tauR |-> tauR, frame |-> f,
      qGiven |-> g, q |-> q, error |-> "none", tauB |-> <<>>, tauP |-> <<>>,
      WM |-> <<>>, wmax |-> <<>>, joint |-> 0] :
        r \in PaycapRobots, w \in Wrenches, tauR \in UNION {TorqueLimits(NJ), TorqueLimits(WrenchDim)},
        f \in {0, 1}, g \in BOOLEAN, q \in UNION {{Zeros(m), Ramp(m)} : m \in {NJ, WrenchDim}}}

ValidPaycapCalls ==
    {c \in PaycapCalls : /\ Len(c.tauR) = c.self.n
                         /\ Len(c.q) = c.self.n
                         /\ (~c.qGiven => c.q = c.self.q)}

PaycapCall ==
    /\ pcall.pc = "call"
    /\ pcall' = paycap(pcall)
    /\ UNCHANGED <<args, runs, heap, call>>

InitPaycap ==
    /\ pcall \in ValidPaycapCalls
    /\ args = <<>>
    /\ runs = <<>>
    /\ heap = HeapIdle
    /\ call = CallIdle

NextPaycap == PaycapCall

SpecPaycap == InitPaycap /\ [][NextPaycap]_vars

(***************************************************************************)
(* Robot objects.  Python objects have identity: heap.robots, heap.arrays, *)
(* heap.lists and heap.links hold the objects of each type, and an object  *)
(* is referred to by its index.                                            *)
(*   robot  [name, links, gravity, q]: the name (a string, here the        *)
(*          sequence of its parts) and references to the list _links and   *)
(*          to the arrays gravity and q                                    *)
(*   list   a sequence of references to Link objects                       *)
(*   link   [m, r, B, Tc]: mass, centre of mass, viscous and Coulomb       *)
(*          friction                                                       *)
(* heap.last records the last call: its name, the robot it was made on,    *)
(* the robot it returned (0 if none) and the value of every robot before.  *)
(***************************************************************************)
\* largest number of robot objects
MaxRobots == 2

\* what a caller can read through robot r: its name, its links' parameters,
\* its gravity and its stored q
RobotValue(h, r) ==
    LET o == h.robots[r]
    IN  [name |-> o.name,
         links |-> [i \in 1..Len(h.lists[o.links]) |-> h.links[h.lists[o.links][i]]],
         gravity |-> h.arrays[o.gravity],
         q |-> h.arrays[o.q]]

AllValues(h) == [r \in 1..Len(h.robots) |-> RobotValue(h, r)]

\* Link.nofriction(coulomb, viscous): a copy of the link with the selected
\* friction parameters zeroed
link_nofriction(link, coulomb, viscous) ==
    [link EXCEPT !.B = IF viscous THEN 0 ELSE @,
                 !.Tc = IF coulomb THEN <<0, 0>> ELSE @]

\* line 333, copy.copy(self): a new object with the same attribute
\* references as self
copy_copy(o) == o

\* lines 333-339: nofriction(coulomb, viscous) on robot s; the new robot is
\* the last of h.robots
nofriction(h, s, coulomb, viscous) ==
    LET self == h.robots[s]
        old == h.lists[self.links]
        nl == Len(h.links)
        newlinks == [i \in 1..Len(old) |->
                        link_nofriction(h.links[old[i]], coulomb, viscous)]
        nf == [copy_copy(self) EXCEPT !.name = <<"NF/">> \o self.name,
                                      !.links = Len(h.lists) + 1]
    IN  [h EXCEPT !.robots = Append(@, nf),
                  !.links = @ \o newlinks,
                  !.lists = Append(@, [i \in 1..Len(old) |-> nl + i]),
                  !.last = [op |-> "nofriction", on |-> s,
                            new |-> Len(h.robots) + 1, before |-> AllValues(h)]]

\* lines 450-454: payload(m, p) on robot s sets the last link's mass and
\* centre of mass in place
payload(h, s, m, p) ==
    LET self == h.robots[s]
        links == h.lists[self.links]
        lastlink == links[Len(links)]
    IN  [h EXCEPT !.links[lastlink].m = m, !.links[lastlink].r = p,
                  !.last = [op |-> "payload", on |-> s, new |-> 0,
                            before |-> AllValues(h)]]

\* a caller's r.gravity[2] = v
gravity_write(h, s, v) ==
    [h EXCEPT !.arrays[h.robots[s].gravity][3] = v,
              !.last = [op |-> "write", on |-> s, new |-> 0,
                        before |-> AllValues(h)]]

\* a caller's r.q[j] = v
q_write(h, s, j, v) ==
    [h EXCEPT !.arrays[h.robots[s].q][j + 1] = v,
              !.last = [op |-> "write", on |-> s, new |-> 0,
                        before |-> AllValues(h)]]

\* one two-link robot with friction on its first link
InitHeap ==
    [robots |-> <<[name |-> <<"robot">>, links |-> 1, gravity |-> 1, q |-> 2]>>,
     arrays |-> <<<<0, 0, 1>>, <<0, 0>>>>,
     lists |-> <<<<1, 2>>>>,
     links |-> <<[m |-> 1, r |-> <<0, 0, 0>>, B |-> 1, Tc |-> <<1, -1>>],
                 [m |-> 2, r |-> <<0, 0, 0>>, B |-> 0, Tc |-> <<0, 0>>]>>,
     last |-> [op |-> "none", on |-> 0, new |-> 0, before |-> <<>>]]

NofrictionCall ==
    \E s \in 1..Len(heap.robots), coulomb \in BOOLEAN, viscous \in BOOLEAN :
        /\ Len(heap.robots) < MaxRobots
        /\ heap' = nofriction(heap, s, coulomb, viscous)
        /\ UNCHANGED <<args, runs, pcall, call>>

PayloadCall ==
    \E s \in 1..Len(heap.robots), m \in {0, 3}, p \in {<<0, 0, 0>>, <<0, 0, 1>>} :
        /\ heap' = payload(heap, s, m, p)
        /\ UNCHANGED <<args, runs, pcall, call>>

GravityWrite ==
    \E s \in 1..Len(heap.robots), v \in {0, 1} :
        /\ heap' = gravity_write(heap, s, v)
        /\ UNCHANGED <<args, runs, pcall, call>>

QWrite ==
    \E s \in 1..Len(heap.robots), j \in {0}, v \in {0, 1} :
        /\ heap' = q_write(heap, s, j, v)
        /\ UNCHANGED <<args, runs, pcall, call>>

InitCopy ==
    /\ heap = InitHeap
    /\ args = <<>>
    /\ runs = <<>>
    /\ pcall = PcallIdle
    /\ call = CallIdle

NextCopy ==
    \/ NofrictionCall
    \/ PayloadCall
    \/ GravityWrite
    \/ QWrite

SpecCopy == InitCopy /\ [][NextCopy]_vars

(***************************************************************************)
(* perterb(p), lines 1071-1080.  The links of the robots that perterb is   *)
(* applied to carry a mass m and an inertia I (here its three principal    *)
(* moments) as fractions.                                                  *)
(***************************************************************************)
RMul(x, y) == Rat(x.num * y.num, x.den * y.den)

RAdd(x, y) == Rat(x.num * y.den + y.num * x.den, x.den * y.den)

RDiv(x, y) == Rat(x.num * y.den, x.den * y.num)

RLeq(x, y) == x.num * y.den <= y.num * x.den

\* self._copy(): a new robot whose arrays, link list and links are new
\* objects with the values of the source's
_copy(h, s) ==
    LET self == h.robots[s]
        old == h.lists[self.links]
        na == Len(h.arrays)
        nl == Len(h.links)
        r2 == [self EXCEPT !.gravity = na + 1, !.q = na + 2,
                           !.links = Len(h.lists) + 1]
    IN  [h EXCEPT !.robots = Append(@, r2),
                  !.arrays = @ \o <<h.arrays[self.gravity], h.arrays[self.q]>>,
                  !.links = @ \o [i \in 1..Len(old) |-> h.links[old[i]]],
                  !.lists = Append(@, [i \in 1..Len(old) |-> nl + i])]

\* the variant of line 1074 with twice the spread
perterb_s_wide(u, p) ==
    RAdd(RMul(RMul(RAdd(RMul(RatOfInt(2), u), RatOfInt(-1)), p), RatOfInt(2)),
         RatOfInt(1))

\* lines 1074 and 1077: s = (2 * np.random.random() - 1) * p + 1, u the
\* number drawn
perterb_s(u, p) ==
    RAdd(RMul(RAdd(RMul(RatOfInt(2), u), RatOfInt(-1)), p), RatOfInt(1))

\* lines 1071-1080: perterb(p) on robot s; draws[i] is the pair of numbers
\* drawn for link i, the new robot is the last of h.robots
perterb(h, s, p, draws) ==
    LET h2 == _copy(h, s)
        new == Len(h2.robots)
        links == h2.lists[h2.robots[new].links]
        scaled(i) ==
            LET link == h2.links[links[i]]
                s1 == perterb_s(draws[i][1], p)
                s2 == perterb_s(draws[i][2], p)
            IN  [link EXCEPT !.m = RMul(@, s1),
                             !.I = [k \in 1..Len(@) |-> RMul(@[k], s2)]]
    IN  [h2 EXCEPT !.robots[new].name = <<"P/">> \o h.robots[s].name,
                   !.links = [j \in 1..Len(@) |->
                                 IF \E i \in 1..Len(links) : links[i] = j
                                 THEN scaled(CHOOSE i \in 1..Len(links) :
                                                 links[i] = j)
                                 ELSE @[j]],
                   !.last = [op |-> "perterb", on |-> s, new |-> new,
                             before |-> AllValues(h), p |-> p]]

\* values of np.random.random(), which lie in [0, 1)
Draws == {Rat(0, 1), Rat(1, 2), Rat(3, 4)}

\* values of p
Spreads == {Rat(1, 10), Rat(1, 2)}

\* one two-link robot
InitPerturbHeap ==
    [robots |-> <<[name |-> <<"robot">>, links |-> 1, gravity |-> 1, q |-> 2]>>,
     arrays |-> <<<<0, 0, 1>>, <<0, 0>>>>,
     lists |-> <<<<1, 2>>>>,
     links |-> <<[m |-> Rat(1, 1), I |-> <<Rat(1, 1), Rat(2, 1), Rat(0, 1)>>,
                  r |-> <<0, 0, 0>>, B |-> 1, Tc |-> <<1, -1>>],
                 [m |-> Rat(2, 1), I |-> <<Rat(1, 2), Rat(1, 2), Rat(1, 1)>>,
                  r |-> <<0, 0, 0>>, B |-> 0, Tc |-> <<0, 0>>]>>,
     last |-> [op |-> "none", on |-> 0, new |-> 0, before |-> <<>>,
               p |-> Rat(0, 1)]]

PerterbCall ==
    \E s \in 1..Len(heap.robots), p \in Spreads :
        \E draws \in [1..Len(heap.lists[heap.robots[s].links]) -> Draws \X Draws] :
            /\ Len(heap.robots) < MaxRobots
            /\ heap' = perterb(heap, s, p, draws)
            /\ UNCHANGED <<args, runs, pcall, call>>

InitPerturb ==
    /\ heap = InitPerturbHeap
    /\ args = <<>>
    /\ runs = <<>>
    /\ pcall = PcallIdle
    /\ call = CallIdle

NextPerturb == PerterbCall

SpecPerturb == InitPerturb /\ [][NextPerturb]_vars

(***************************************************************************)
(* Arguments of the operations as Python values: None, a list, or a numpy  *)
(* array of one or two dimensions.  data holds the columns; a list and a   *)
(* one-dimensional array have one column.                                  *)
(***************************************************************************)
\* largest batch width (columns of a trajectory argument)
MaxBatch == 3

ArgNone == [kind |-> "None", shape |-> <<>>, data |-> <<>>]

PyList(v) == [kind |-> "list", shape |-> <<Len(v)>>, data |-> <<v>>]

Array1(v) == [kind |-> "ndarray", shape |-> <<Len(v)>>, data |-> <<v>>]

Array2(rows, cols) ==
    [kind |-> "ndarray", shape |-> <<rows, Len(cols)>>, data |-> cols]

\* ndarray.flatten(), row by row
Flat(a) ==
    IF Len(a.shape) = 1 THEN a.data[1]
    ELSE [k \in 1..(a.shape[1] * a.shape[2]) |->
             a.data[((k - 1) % a.shape[2]) + 1][((k - 1) \div a.shape[2]) + 1]]

Ok(v) == [ok |-> TRUE, error |-> "none", val |-> v]

Err(e) == [ok |-> FALSE, error |-> e, val |-> ArgNone]

\* spatialmath getvector(v, dim, out): a list of dim elements or an array
\* of shape (dim,), (1, dim) or (dim, 1) becomes an array of shape (dim,)
\* or, for out = 'col', (dim, 1); another length is a ValueError, another
\* type a TypeError
getvector(v, dim, out) ==
    LET as(x) == IF out = "col" THEN Array2(Len(x), <<x>>) ELSE Array1(x)
    IN  IF v.kind = "list"
        THEN IF v.shape[1] # dim THEN Err("ValueError") ELSE Ok(as(v.data[1]))
        ELSE IF v.kind = "ndarray"
        THEN IF v.shape \in {<<dim>>, <<1, dim>>, <<dim, 1>>}
             THEN Ok(as(Flat(v)))
             ELSE Err("ValueError")
        ELSE Err("TypeError")

\* spatialmath verifymatrix(m, shape): TypeError unless m is an array,
\* ValueError unless its shape is shape
verifymatrix(m, shape) ==
    IF m.kind # "ndarray" THEN Err("TypeError")
    ELSE IF m.shape # shape THEN Err("ValueError")
    ELSE Ok(m)

\* the expression q.shape[1]: a list and None have no attribute shape, and
\* the shape of a one-dimensional array has no element 1
shape1(q) ==
    IF q.kind # "ndarray" THEN Err("AttributeError")
    ELSE IF Len(q.shape) < 2 THEN Err("IndexError")
    ELSE Ok(q.shape[2])

\* index of the first failed result, 0 if none failed
FirstBad(rs) ==
    IF \A i \in 1..Len(rs) : rs[i].ok THEN 0
    ELSE CHOOSE i \in 1..Len(rs) : ~rs[i].ok /\ \A j \in 1..(i - 1) : rs[j].ok

(***************************************************************************)
(* The argument handling shared by accel (280-288), inertia (620-624),     *)
(* coriolis (665-672), itorque (743-751), gravload (936-941) and paycap    *)
(* (1001-1007):                                                            *)
(*     try:     v1 = getvector(v1, d1, 'col'); v2 = getvector(v2, d2, ...) *)
(*     except ValueError:                                                  *)
(*              trajn = v1.shape[1]                                        *)
(*              verifymatrix(v1, (d1, trajn)); verifymatrix(v2, ...)       *)
(* A conversion that succeeded has rebound its name before the failure;    *)
(* nverify is the number of names verified in the except block.            *)
(***************************************************************************)
Boundary(vs, dims, nverify) ==
    LET conv == [i \in 1..Len(vs) |-> getvector(vs[i], dims[i], "col")]
        f == FirstBad(conv)
        cur == [i \in 1..Len(vs) |->
                   IF f = 0 \/ i < f THEN conv[i].val ELSE vs[i]]
        s == shape1(cur[1])
        ver == [i \in 1..nverify |->
                   verifymatrix(cur[i], <<dims[i], IF s.ok THEN s.val ELSE 0>>)]
        g == FirstBad(ver)
    IN  IF f = 0 THEN [ok |-> TRUE, error |-> "none", trajn |-> 1, vals |-> cur]
        ELSE IF conv[f].error # "ValueError"
        THEN [ok |-> FALSE, error |-> conv[f].error, trajn |-> 0, vals |-> cur]
        ELSE IF ~s.ok
        THEN [ok |-> FALSE, error |-> s.error, trajn |-> 0, vals |-> cur]
        ELSE IF g # 0
        THEN [ok |-> FALSE, error |-> ver[g].error, trajn |-> 0, vals |-> cur]
        ELSE [ok |-> TRUE, error |-> "none", trajn |-> s.val, vals |-> cur]

(***************************************************************************)
(* One call of an operation.                                               *)
(*   op, self, argv   the operation, the robot and the arguments           *)
(*   frame            the frame argument of pay and paycap                 *)
(*   pc               "done" (returned) or "error" (raised)                *)
(*   error            the type of the exception raised                     *)
(*   trajn            the batch width the operation worked with            *)
(*   nrne, njac, ntorq   invocations of the oracle rne, of the Jacobian    *)
(*                    collaborator and of the torque law during the call   *)
(*   result           the columns of the returned array                    *)
(***************************************************************************)
NewCall(op, self, argv) ==
    [op |-> op, self |-> self, argv |-> argv, frame |-> 1, pc |-> "call",
     error |-> "none", trajn |-> 0, nrne |-> 0, njac |-> 0, ntorq |-> 0,
     result |-> <<>>]

\* the variant of a raise that comes after a first oracle call
RejectedAfterProbe(c, e) == [c EXCEPT !.pc = "error", !.error = e, !.nrne = 1]

\* an exception raised by the argument handling
Rejected(c, e) == [c EXCEPT !.pc = "error", !.error = e]

Returned(c, trajn, nrne, njac, result) ==
    [c EXCEPT !.pc = "done", !.trajn = trajn, !.nrne = nrne, !.njac = njac,
              !.result = result]

(***************************************************************************)
(* accel (lines 278-312), inertia (618-638) and itorque (741-762).         *)
(***************************************************************************)
accel_call(c) ==
    LET n == c.self.n
        b == Boundary(c.argv, <<n, n, n>>, 3)
    IN  IF ~b.ok THEN Rejected(c, b.error)
        ELSE Returned(c, b.trajn, 2 * b.trajn, 0,
                 [i \in 1..b.trajn |->
                     accel(c.self, b.vals[1].data[i], b.vals[2].data[i],
                           b.vals[3].data[i])])

\* In[:, :, i]: row r, column j is the torque on joint r for unit
\* acceleration of joint j
inertia_call(c) ==
    LET n == c.self.n
        b == Boundary(c.argv, <<n>>, 1)
    IN  IF ~b.ok THEN Rejected(c, b.error)
        ELSE Returned(c, b.trajn, b.trajn, 0,
                 [i \in 1..b.trajn |-> accel_m(n, b.vals[1].data[i])])

itorque_call(c) ==
    LET n == c.self.n
        b == Boundary(c.argv, <<n, n>>, 2)
    IN  IF ~b.ok THEN Rejected(c, b.error)
        ELSE Returned(c, b.trajn, b.trajn, 0,
                 [i \in 1..b.trajn |->
                     rne(n, b.vals[1].data[i], Zeros(n), b.vals[2].data[i],
                         <<0, 0, 0>>)])

(***************************************************************************)
(* The oracle of a robot whose links carry friction parameters and whose   *)
(* joints are coupled through their velocities:                            *)
(*   torque = M qdd + V(q, qd) + friction(qd) + gravity load               *)
(* V is a quadratic form in qd with coefficients that depend on q, and     *)
(* the friction of joint i is B qd[i] plus the Coulomb term Tc chosen by   *)
(* the sign of qd[i].                                                      *)
(***************************************************************************)
\* coefficient of qd[j] qd[k], j <= k, in the velocity torque of joint i
Coupling(i, j, k, q) == q[j] + i - k

VelocityTorque(n, q, qd) ==
    [i \in 1..n |->
        SumTo([j \in 1..n |->
                  SumTo([k \in 1..n |->
                            IF j <= k THEN Coupling(i, j, k, q) * qd[j] * qd[k]
                            ELSE 0], n)], n)]

LinkFriction(self, qd) ==
    [i \in 1..self.n |->
        self.links[i].B * qd[i]
        + (IF qd[i] > 0 THEN self.links[i].Tc[1]
           ELSE IF qd[i] < 0 THEN self.links[i].Tc[2] ELSE 0)]

rne_c(self, q, qd, qdd, grav) ==
    [i \in 1..self.n |->
        MatVec(MassMatrix(self.n), qdd)[i] + VelocityTorque(self.n, q, qd)[i]
        + LinkFriction(self, qd)[i] + grav[3]]

\* nofriction(coulomb, viscous) as a value: the robot with the links that
\* Link.nofriction gives
nofriction_links(self, coulomb, viscous) ==
    [self EXCEPT !.links = [i \in 1..Len(@) |->
                               link_nofriction(@[i], coulomb, viscous)]]

(***************************************************************************)
(* coriolis(q, qd), lines 674-709, for one configuration: the matrix C as  *)
(* C[r][c], its entries fractions because of the halves at lines 703, 706. *)
(***************************************************************************)
\* the variant of line 674 that probes the robot itself
coriolis_r1_self(self) == self

\* line 674: r1 = self.nofriction(True, True)
coriolis_r1(self) == nofriction_links(self, TRUE, TRUE)

\* lines 682-688: Csq[:, i], the torque for unit velocity of joint i alone
coriolis_Csq(self, q, i) ==
    rne_c(coriolis_r1(self), q, Unit(self.n, i), Zeros(self.n), <<0, 0, 0>>)

\* lines 697-706: tau - Csq[:, j] - Csq[:, i] for unit velocity of joints
\* i and j
coriolis_cross(self, q, i, j) ==
    LET n == self.n
        tau == rne_c(coriolis_r1(self), q, VAdd(Unit(n, i), Unit(n, j)),
                     Zeros(n), <<0, 0, 0>>)
    IN  VSub(VSub(tau, coriolis_Csq(self, q, j)), coriolis_Csq(self, q, i))

coriolis(self, q, qd) ==
    LET n == self.n
        lo(a, b) == IF a < b THEN a ELSE b
        hi(a, b) == IF a < b THEN b ELSE a
    IN  [r \in 1..n |->
            [c \in 1..n |->
                Rat(SumTo([o \in 1..n |->
                              IF o = c THEN 0
                              ELSE coriolis_cross(self, q, lo(o, c), hi(o, c))[r]
                                   * qd[o]], n)
                    + 2 * coriolis_Csq(self, q, c)[r] * qd[c], 2)]]

\* lines 663-714
coriolis_call(c) ==
    LET n == c.self.n
        b == Boundary(c.argv, <<n, n>>, 2)
    IN  IF ~b.ok THEN Rejected(c, b.error)
        ELSE Returned(c, b.trajn, b.trajn * (n + (n * (n - 1)) \div 2), 0,
                 [i \in 1..b.trajn |->
                     coriolis(c.self, b.vals[1].data[i], b.vals[2].data[i])])

(***************************************************************************)
(* gravload(q, grav), lines 928-956; argv = <<q, grav>>.                   *)
(***************************************************************************)
\* line 944, grav @ np.ones((1, trajn)): defined for a one-column grav,
\* whose column it repeats trajn times
gravload_widen(grav, trajn) ==
    IF grav.shape[2] # 1 THEN Err("ValueError")
    ELSE Ok(Array2(grav.shape[1], [i \in 1..trajn |-> grav.data[1]]))

gravload_call(c) ==
    LET self == c.self
        n == self.n
        q == IF c.argv[1].kind = "None" THEN Array1(self.q) ELSE c.argv[1]
        grav == IF c.argv[2].kind = "None"
                THEN getvector(Array1(self.gravity), 3, "col").val
                ELSE c.argv[2]
        b == Boundary(<<q, grav>>, <<n, 3>>, 1)
        s == shape1(b.vals[2])
        w == IF s.val < b.trajn THEN gravload_widen(b.vals[2], b.trajn)
             ELSE Ok(b.vals[2])
        v == verifymatrix(w.val, <<3, b.trajn>>)
    IN  IF ~b.ok THEN Rejected(c, b.error)
        ELSE IF ~s.ok THEN Rejected(c, s.error)
        ELSE IF ~w.ok THEN Rejected(c, w.error)
        ELSE IF ~v.ok THEN Rejected(c, v.error)
        ELSE Returned(c, b.trajn, b.trajn, 0,
                 [i \in 1..b.trajn |->
                     rne(n, b.vals[1].data[i], Zeros(n), Zeros(n),
                         w.val.data[i])])

(***************************************************************************)
(* pay(W, q, J, frame), lines 385-431; argv = <<W, q, J>>.  The Jacobian   *)
(* arguments explored are two-dimensional, J[k][c] = J.data[c][k], so     *)
(* the check of line 396 for a batch of wrenches always fails on them.     *)
(***************************************************************************)
\* line 424, tau = -J.T @ W, for a Jacobian given as rows J[k]
pay_tau(n, J, W) ==
    [c \in 1..n |->
        FSum([k \in 1..WrenchDim |-> FMul(FNeg(FInt(J[k][c])), FInt(W[k]))],
             WrenchDim)]

\* the variant of lines 419-422 that takes the base frame for frame = 1
pay_jacobian_swapped(self, q, frame) ==
    IF frame = 0 THEN jacobe(self.n, q) ELSE jacob0(self.n, q)

\* lines 419-422: if frame: jacobe(q) else: jacob0(q)
pay_jacobian(self, q, frame) ==
    IF frame # 0 THEN jacobe(self.n, q) ELSE jacob0(self.n, q)

\* lines 391-431
pay_call(c) ==
    LET self == c.self
        n == self.n
        W == c.argv[1]
        q == c.argv[2]
        J == c.argv[3]
        g == getvector(W, WrenchDim, "array")
        s == shape1(W)
        vW == verifymatrix(W, <<WrenchDim, s.val>>)
        vJ3 == verifymatrix(J, <<WrenchDim, n, s.val>>)
        vq == verifymatrix(q, <<n, s.val>>)
        vJ == verifymatrix(J, <<WrenchDim, n>>)
        q1 == IF q.kind = "None" THEN Ok(Array1(self.q))
              ELSE getvector(q, n, "array")
        rows(Jm) == [k \in 1..WrenchDim |-> [cc \in 1..n |-> Jm.data[cc][k]]]
    IN  IF ~g.ok
        THEN IF g.error # "ValueError" THEN Rejected(c, g.error)
             ELSE IF ~s.ok THEN Rejected(c, s.error)
             ELSE IF ~vW.ok THEN Rejected(c, vW.error)
             ELSE IF J.kind # "None" THEN Rejected(c, vJ3.error)
             ELSE IF ~vq.ok THEN Rejected(c, vq.error)
             ELSE Returned(c, s.val, 0, s.val,
                      [i \in 1..s.val |->
                          pay_tau(n, pay_jacobian(self, q.data[i], c.frame),
                                  W.data[i])])
        ELSE IF J.kind # "None"
        THEN IF ~vJ.ok THEN Rejected(c, vJ.error)
             ELSE Returned(c, 0, 0, 0, <<pay_tau(n, rows(J), g.val.data[1])>>)
        ELSE IF ~q1.ok THEN Rejected(c, q1.error)
        ELSE Returned(c, 0, 0, 1,
                 <<pay_tau(n, pay_jacobian(self, q1.val.data[1], c.frame),
                           g.val.data[1])>>)

(***************************************************************************)
(* paycap(w, tauR, frame, q), lines 996-1046; argv = <<w, tauR, q>>.       *)
(* Each configuration of the batch is worked as paycap(c) above; the       *)
(* first exception ends the call.                                          *)
(***************************************************************************)
paycap_call(c) ==
    LET self == c.self
        n == self.n
        q == IF c.argv[3].kind = "None" THEN Array1(self.q) ELSE c.argv[3]
        b == Boundary(<<q, c.argv[1]>>, <<n, WrenchDim>>, 2)
        v == verifymatrix(c.argv[2], <<n, 2>>)
        one(i) == paycap([pc |-> "call", self |-> self,
                          w |-> b.vals[2].data[i],
                          tauR |-> [j \in 1..n |-> <<c.argv[2].data[1][j],
                                                     c.argv[2].data[2][j]>>],
                          frame |-> c.frame, qGiven |-> TRUE,
                          q |-> b.vals[1].data[i], error |-> "none",
                          tauB |-> <<>>, tauP |-> <<>>, WM |-> <<>>,
                          wmax |-> <<>>, joint |-> 0])
    IN  IF ~b.ok THEN Rejected(c, b.error)
        ELSE IF ~v.ok THEN Rejected(c, v.error)
        ELSE IF one(1).pc = "error"
        THEN [c EXCEPT !.pc = "error", !.error = one(1).error, !.trajn = b.trajn,
                       !.nrne = 1, !.njac = 1]
        ELSE Returned(c, b.trajn, b.trajn, b.trajn,
                 [i \in 1..b.trajn |-> <<one(i).wmax, one(i).joint>>])

(***************************************************************************)
(* fdyn's argument handling, lines 133-148; argv = <<T, q0, qd0, torqfun>>.*)
(* A call that passes it goes on as the runs of fdyn above do: it is left  *)
(* at pc = "accepted", before the integrator is constructed.               *)
(***************************************************************************)
Scalar(x) == [kind |-> "scalar", shape |-> <<>>, data |-> <<<<x>>>>]

Callable == [kind |-> "callable", shape |-> <<>>, data |-> <<>>]

isscalar(x) == x.kind = "scalar"

callable(x) == x.kind = "callable"

fdyn_check(c) ==
    LET n == c.self.n
        q0 == getvector(c.argv[2], n, "array")
        qd0 == IF c.argv[3].kind = "None" THEN Ok(Array1(Zeros(n)))
               ELSE getvector(c.argv[3], n, "array")
    IN  IF ~isscalar(c.argv[1]) THEN Rejected(c, "ValueError")
        ELSE IF ~q0.ok THEN Rejected(c, q0.error)
        ELSE IF ~qd0.ok THEN Rejected(c, qd0.error)
        ELSE IF c.argv[4].kind # "None" /\ ~callable(c.argv[4])
        THEN Rejected(c, "ValueError")
        ELSE [c EXCEPT !.pc = "accepted"]

(***************************************************************************)
(* The calls explored.                                                     *)
(***************************************************************************)
\* the vector off, off + 1, ... of k elements
Count(k, off) == [i \in 1..k |-> off + i - 1]

\* arguments given for a joint vector of a robot of n joints: lists and
\* arrays of n and of other lengths, a column, batches of 2..MaxBatch
\* columns, and a batch with a row too many
JointArgs(n, off) ==
    {PyList(Count(n, off)), PyList(Count(n + 1, off)), Array1(Count(n, off)),
     Array1(Count(n - 1, off)), Array2(n, <<Count(n, off)>>),
     Array2(n + 1, <<Count(n + 1, off), Count(n + 1, off)>>)}
    \cup {Array2(n, [j \in 1..m |-> Count(n, off + j - 1)]) : m \in 2..MaxBatch}

GravArgs ==
    {ArgNone, PyList(<<0, 0, 2>>), Array1(<<0, 0, 2>>), Array1(<<0, 2>>),
     Array2(3, <<(<<0, 0, 2>>)>>)}
    \cup {Array2(3, [j \in 1..m |-> <<0, 0, j>>]) : m \in 2..MaxBatch}

WrenchArgs ==
    {PyList(<<0, 0, 2, 0, 0, 0>>), Array1(<<3, 4, 0, 0, 0, 0>>),
     Array1(<<0, 0, 0, 0, 0, 0>>), PyList(<<3, 4, 0, 0, 0>>),
     Array1(<<3, 4, 0, 0, 0, 0, 0>>)}
    \cup {Array2(WrenchDim, [j \in 1..m |-> <<0, 0, j, 0, 0, 0>>]) :
             m \in 2..MaxBatch}

JacobianArgs(n) ==
    {ArgNone,
     Array2(WrenchDim, [cc \in 1..n |-> [k \in 1..WrenchDim |-> k - 2 * cc]]),
     Array2(WrenchDim, [cc \in 1..(n + 1) |-> [k \in 1..WrenchDim |-> k - cc]])}

TorqueLimitArgs(n) ==
    {Array2(n, <<[j \in 1..n |-> j + 1], [j \in 1..n |-> -j]>>),
     Array2(n, <<[j \in 1..n |-> 2], [j \in 1..n |-> 0], [j \in 1..n |-> 0]>>),
     PyList(<<2, -2>>)}

Frames == {0, 1, 2}

\* robots of NJ joints with and without friction on their links
CallRobots ==
    {[n |-> NJ, gravity |-> <<0, 0, g>>, q |-> Ramp(NJ),
      links |-> [i \in 1..NJ |-> [m |-> i, r |-> <<0, 0, 0>>, B |-> f * i,
                                  Tc |-> <<f, -f>>]]] :
        g \in {0, 1}, f \in {0, 1}}

Idle == call.pc = "idle"

Others == <<args, runs, pcall, heap>>

AccelCall ==
    \E self \in CallRobots, q \in JointArgs(NJ, -1), qd \in JointArgs(NJ, 1),
       torque \in JointArgs(NJ, 3) :
        /\ Idle
        /\ call' = accel_call(NewCall("accel", self, <<q, qd, torque>>))
        /\ UNCHANGED Others

InertiaCall ==
    \E self \in CallRobots, q \in JointArgs(NJ, -1) :
        /\ Idle
        /\ call' = inertia_call(NewCall("inertia", self, <<q>>))
        /\ UNCHANGED Others

CoriolisCall ==
    \E self \in CallRobots, q \in JointArgs(NJ, -1), qd \in JointArgs(NJ, 1) :
        /\ Idle
        /\ call' = coriolis_call(NewCall("coriolis", self, <<q, qd>>))
        /\ UNCHANGED Others

ItorqueCall ==
    \E self \in CallRobots, q \in JointArgs(NJ, -1), qdd \in JointArgs(NJ, 1) :
        /\ Idle
        /\ call' = itorque_call(NewCall("itorque", self, <<q, qdd>>))
        /\ UNCHANGED Others

GravloadCall ==
    \E self \in CallRobots, q \in {ArgNone} \cup JointArgs(NJ, -1),
       grav \in GravArgs :
        /\ Idle
        /\ call' = gravload_call(NewCall("gravload", self, <<q, grav>>))
        /\ UNCHANGED Others

PayCall ==
    \E self \in CallRobots, W \in WrenchArgs,
       q \in {ArgNone} \cup JointArgs(NJ, -1), J \in JacobianArgs(NJ),
       frame \in Frames :
        /\ Idle
        /\ call' = pay_call([NewCall("pay", self, <<W, q, J>>)
                                EXCEPT !.frame = frame])
        /\ UNCHANGED Others

PaycapArgsCall ==
    \E self \in CallRobots, w \in WrenchArgs, tauR \in TorqueLimitArgs(NJ),
       q \in {ArgNone} \cup JointArgs(NJ, -1), frame \in Frames :
        /\ Idle
        /\ call' = paycap_call([NewCall("paycap", self, <<w, tauR, q>>)
                                   EXCEPT !.frame = frame])
        /\ UNCHANGED Others

FdynArgCheck ==
    \E self \in CallRobots, T \in {Scalar(1), PyList(<<0, 1>>)},
       q0 \in JointArgs(NJ, -1), qd0 \in {ArgNone} \cup JointArgs(NJ, 1),
       torqfun \in {ArgNone, Callable, Scalar(0)} :
        /\ Idle
        /\ call' = fdyn_check(NewCall("fdyn", self, <<T, q0, qd0, torqfun>>))
        /\ UNCHANGED Others

InitCalls ==
    /\ call = CallIdle
    /\ args = <<>>
    /\ runs = <<>>
    /\ pcall = PcallIdle
    /\ heap = HeapIdle

NextCalls ==
    \/ AccelCall
    \/ InertiaCall
    \/ CoriolisCall
    \/ ItorqueCall
    \/ GravloadCall
    \/ PayCall
    \/ PaycapArgsCall
    \/ FdynArgCheck

SpecCalls == InitCalls /\ [][NextCalls]_vars

(***************************************************************************)
(* Properties of paycap.                                                   *)
(***************************************************************************)
\* C7: the binding joint that paycap returns is never a joint whose
\* unit-wrench torque tauP[c] is exactly zero, whatever the limits and the
\* gravity torque are, also when every joint has zero unit-wrench torque.
C7_NeverZeroTorqueJoint ==
    pcall.pc = "done" => ~FIsZero(pcall.tauP[pcall.joint + 1])

\* C8: paycap with a wrench of zero norm ends in an error; it never returns
\* a wrench and a joint index.
C8_ZeroNormSignalled ==
    (pcall.pc \in {"done", "error"} /\ Norm(pcall.w) = 0) => pcall.pc = "error"

\* C9: paycap's scaling factor of joint c is (tauR[c,0] - tauB[c]) / tauP[c]
\* for tauP[c] > 0 and (tauR[c,1] - tauB[c]) / tauP[c] for tauP[c] < 0, the
\* returned joint is the index of the smallest factor, and the returned
\* wrench is the unit wrench w/|w| times that smallest factor.
C9_MaximalWrench ==
    (pcall.pc = "done" /\ Norm(pcall.w) # 0) =>
        LET b == pcall.joint + 1
            u == UnitWrench(pcall.w)
            lim(c, col) == FInt(pcall.tauR[c][col] - pcall.tauB[c])
        IN  /\ \A c \in 1..pcall.self.n :
                   /\ FPositive(pcall.tauP[c]) =>
                          pcall.WM[c] = FDiv(lim(c, 1), pcall.tauP[c])
                   /\ FLess(pcall.tauP[c], FInt(0)) =>
                          pcall.WM[c] = FDiv(lim(c, 2), pcall.tauP[c])
                   /\ ~FLess(pcall.WM[c], pcall.WM[b])
            /\ pcall.wmax = [k \in 1..WrenchDim |-> FMul(u[k], pcall.WM[b])]

(***************************************************************************)
(* Properties of nofriction.                                               *)
(***************************************************************************)
\* the mutable objects reachable from robot r: its arrays, its list of
\* links and the links in it
Arrays(h, r) == {h.robots[r].gravity, h.robots[r].q}

Links(h, r) == {h.lists[h.robots[r].links][i] :
                   i \in 1..Len(h.lists[h.robots[r].links])}

\* C10: nofriction returns a value copy: the call leaves every attribute
\* of the source robot unchanged, the returned robot shares no mutable
\* attribute (gravity, q, link list, links) with the source, and a later
\* in-place write through one robot is not seen through any other.
C10_ValueCopy ==
    LET l == heap.last
    IN  /\ l.op = "nofriction" =>
               /\ RobotValue(heap, l.on) = l.before[l.on]
               /\ Arrays(heap, l.new) \cap Arrays(heap, l.on) = {}
               /\ heap.robots[l.new].links # heap.robots[l.on].links
               /\ Links(heap, l.new) \cap Links(heap, l.on) = {}
        /\ l.op \in {"write", "payload"} =>
               \A r \in 1..Len(heap.robots) :
                   r # l.on => RobotValue(heap, r) = l.before[r]

(***************************************************************************)
(* Properties of fdyn.                                                     *)
(***************************************************************************)
Ended(r) == r.pc \in {"done", "error"}

X0 == args.q0 \o args.qd0

\* C1: if the integrator reports 'failed' after a step, fdyn raises
\* RuntimeError and returns no trajectory, neither the samples stashed so
\* far nor a resampled one; a trajectory is returned only when the
\* integrator finished and never failed.
C1_FailureAborts ==
    \A p \in Flags :
        LET r == runs[p]
        IN  /\ (r.failedAt # -1 =>
                   /\ ~r.returned
                   /\ r.result = NoResult
                   /\ r.pc \in {"stepped", "error"}
                   /\ Len(r.tlist) = r.failedAt)
            /\ (r.failedAt # -1 /\ r.pc = "error" => r.error = "RuntimeError")
            /\ (r.returned => r.status = "finished" /\ r.failedAt = -1)

\* C1 witness: the integrator failed after at least one accepted step, with
\* a resampled output requested, and the run ended in RuntimeError.
C1_Witness ==
    \E p \in Flags :
        /\ runs[p].failedAt >= 2
        /\ args.dtGiven
        /\ runs[p].pc = "error"
        /\ runs[p].error = "RuntimeError"

\* C2: whenever the torque law returns a value whose length is not n or
\* that has a non-real element, that derivative evaluation raises an error
\* which ends the run: accel is not called for it, no later evaluation or
\* step happens, and no trajectory is returned.
C2_ContractViolationAborts ==
    \A p \in Flags :
        LET r == runs[p]
        IN  /\ (r.nbad > 0 =>
                   /\ r.nbad = 1
                   /\ r.pc = "error"
                   /\ r.error = "RuntimeError"
                   /\ ~r.returned
                   /\ r.result = NoResult
                   /\ <<r.nstep, r.nfdyn, r.naccel>> = r.atBad)
            /\ r.naccel = r.nfdyn - r.nbad

\* C2 witness: a law result with a non-real element, or of the wrong
\* length, came in the middle of the integration (after an accepted step).
C2_Witness ==
    \E p \in Flags :
        /\ runs[p].nbad = 1
        /\ runs[p].nstep >= 2
        /\ Len(runs[p].tlist) >= 2
        /\ runs[p].pc = "error"

\* C3: with a fixed output interval dt > 0 and T > 0 the returned times are
\* exactly 0, dt, 2 dt, ... below T (T itself excluded), each inside the
\* span [0, T] of the raw samples, and q and qd have one row per time.
C3_UniformGrid ==
    \A p \in Flags :
        LET r == runs[p]
            res == r.result
        IN  (r.returned /\ args.dtGiven /\ args.dt > 0 /\ args.T > 0) =>
                /\ Len(res.t) = Cardinality({m \in 0..args.T : m * args.dt < args.T})
                /\ \A i \in 1..Len(res.t) :
                       /\ res.t[i] = (i - 1) * args.dt
                       /\ res.t[i] < args.T
                       /\ r.tlist[1] <= res.t[i]
                       /\ res.t[i] <= r.tlist[Len(r.tlist)]
                /\ r.tlist[1] = 0
                /\ r.tlist[Len(r.tlist)] = args.T
                /\ Len(res.q) = Len(res.t)
                /\ Len(res.qd) = Len(res.t)

\* C3 witness: a returned run whose T is a multiple of dt, with more than
\* one grid time and a grid time that is not a raw sample time.
C3_Witness ==
    \E p \in Flags :
        /\ runs[p].returned
        /\ args.dtGiven
        /\ args.T = 2 * args.dt
        /\ Len(runs[p].result.t) = 2
        /\ Len(runs[p].tlist) = 2

\* C4 as stated: the torque law is invoked exactly once per integration
\* step, i.e. once per call of integrator.step in the loop.
C4_OncePerStep ==
    \A p \in Flags :
        (args.torqfun # "none" /\ runs[p].pc = "done") =>
            runs[p].ntorq = runs[p].nstep

\* C4 amended: the torque law is invoked exactly once per derivative
\* evaluation (per call of _fdyn), and never when no law is supplied.
C4_OncePerEvaluation ==
    \A p \in Flags :
        runs[p].ntorq = IF args.torqfun = "none" THEN 0 ELSE runs[p].nfdyn

\* C4 witness: a returned run with a law in which the integrator evaluated
\* the derivative more often than it stepped.
C4_Witness ==
    \E p \in Flags :
        /\ args.torqfun # "none"
        /\ runs[p].pc = "done"
        /\ runs[p].nstep >= 2
        /\ runs[p].ntorq = runs[p].nfdyn
        /\ runs[p].ntorq > runs[p].nstep

\* C5: two runs that differ only in the progress flag end the same way:
\* the same trajectory, or the same error; also for T = 0.
C5_ProgressNoEffect ==
    (Ended(runs[FALSE]) /\ Ended(runs[TRUE])) =>
        /\ runs[FALSE].returned = runs[TRUE].returned
        /\ runs[FALSE].result = runs[TRUE].result
        /\ runs[FALSE].error = runs[TRUE].error

\* the claim's case: no torque law, zero initial velocity, zero gravity
AtRest ==
    /\ args.torqfun = "none"
    /\ args.qd0 = Zeros(args.self.n)
    /\ args.self.gravity = <<0, 0, 0>>

\* C6: with no torque law, zero initial velocity and zero gravity, every
\* derivative evaluation is at [q0; 0] and returns [0; 0], and every sample
\* of the trajectory, raw or resampled, has q = q0 and qd = 0.
C6_EquilibriumAtRest ==
    \A p \in Flags :
        LET r == runs[p]
            n == args.self.n
        IN  AtRest =>
                /\ (r.status # "none" => r.y = X0)
                /\ r.k = Zeros(2 * n)
                /\ \A i \in 1..Len(r.xlist) : r.xlist[i] = X0
                /\ \A i \in 1..Len(r.result.q) : \A j \in 1..n :
                       /\ r.result.q[i][j] = RatOfInt(args.q0[j])
                       /\ r.result.qd[i][j] = RatOfInt(0)

\* C6 witness: a run at rest that took two steps, evaluated the derivative
\* and returned a resampled trajectory of more than one row.
C6_Witness ==
    \E p \in Flags :
        /\ AtRest
        /\ runs[p].returned
        /\ args.dtGiven
        /\ runs[p].nstep >= 2
        /\ runs[p].nfdyn >= 2
        /\ Len(runs[p].result.q) >= 2

(***************************************************************************)
(* Properties of perterb.                                                  *)
(***************************************************************************)
\* 1 - p <= s <= 1 + p
WithinSpread(s, p) ==
    /\ RLeq(RAdd(RatOfInt(1), RMul(RatOfInt(-1), p)), s)
    /\ RLeq(s, RAdd(RatOfInt(1), p))

\* new is old times one factor of [1 - p, 1 + p], entry by entry
ScaledWithin(new, old, p) ==
    LET nz == {k \in 1..Len(old) : old[k].num # 0}
    IN  /\ Len(new) = Len(old)
        /\ \A k \in (1..Len(old)) \ nz : new[k].num = 0
        /\ nz # {} =>
               LET s == RDiv(new[CHOOSE k \in nz : TRUE], old[CHOOSE k \in nz : TRUE])
               IN  /\ WithinSpread(s, p)
                   /\ \A k \in nz : new[k] = RMul(old[k], s)

\* C11: perterb(p) returns a new robot named 'P/' + the source's name whose
\* link i has the source link's mass times a factor s1 and the source
\* link's inertia times a factor s2, both in [1 - p, 1 + p], and the
\* source robot's link masses and inertias are as they were before the call.
C11_PerturbedCopy ==
    LET l == heap.last
    IN  l.op = "perterb" =>
            LET src == l.before[l.on]
                res == RobotValue(heap, l.new)
            IN  /\ l.new # l.on
                /\ res.name = <<"P/">> \o src.name
                /\ Len(res.links) = Len(src.links)
                /\ \A i \in 1..Len(src.links) :
                       /\ ScaledWithin(<<res.links[i].m>>, <<src.links[i].m>>, l.p)
                       /\ ScaledWithin(res.links[i].I, src.links[i].I, l.p)
                /\ \A i \in 1..Len(src.links) :
                       /\ RobotValue(heap, l.on).links[i].m = src.links[i].m
                       /\ RobotValue(heap, l.on).links[i].I = src.links[i].I

\* a perturbed robot one of whose links got different factors for its mass
\* and its inertia, one of them 1 - p
C11_Witness ==
    LET l == heap.last
    IN  /\ l.op = "perterb"
        /\ \E i \in 1..Len(l.before[l.on].links) :
               LET old == l.before[l.on].links[i]
                   new == RobotValue(heap, l.new).links[i]
                   s1 == RDiv(new.m, old.m)
                   s2 == RDiv(new.I[1], old.I[1])
               IN  /\ s1 # s2
                   /\ s1 = RAdd(RatOfInt(1), RMul(RatOfInt(-1), l.p))

(***************************************************************************)
(* Properties of payload.                                                  *)
(***************************************************************************)
\* the last link of robot r
LastLink(h, r) == h.lists[h.robots[r].links][Len(h.lists[h.robots[r].links])]

\* payload(0) right after a payload call on the same robot
PayloadZeroAfterPayload ==
    /\ heap.last.op = "payload"
    /\ heap' = payload(heap, heap.last.on, 0, <<0, 0, 0>>)

\* the last link's mass and centre of mass are again what they were before
\* the earlier payload call
PayloadRemoved ==
    LET was == heap.last.before[heap.last.on].links
        now == RobotValue(heap', heap.last.on).links
    IN  /\ now[Len(now)].m = was[Len(was)].m
        /\ now[Len(now)].r = was[Len(was)].r

\* a payload call
PayloadStep ==
    \E s \in 1..Len(heap.robots), m \in {0, 3}, p \in {<<0, 0, 0>>, <<0, 0, 1>>} :
        heap' = payload(heap, s, m, p)

\* every link object but the last link of the robot called on is unchanged
OnlyLastLinkChanged ==
    \A j \in 1..Len(heap.links) :
        j # LastLink(heap, heap'.last.on) => heap'.links[j] = heap.links[j]

\* C19: payload(0) after payload(m, p) on a robot leaves the last link's
\* mass and centre of mass as they were before payload(m, p), and a call of
\* payload changes no link other than the robot's last one.
C19_PayloadZeroRemoves ==
    [][(PayloadZeroAfterPayload => PayloadRemoved)
       /\ (PayloadStep => OnlyLastLinkChanged)]_vars

(***************************************************************************)
(* Properties of fdyn's failures and of its undivided output.              *)
(***************************************************************************)
\* the error that _fdyn raises in run r when the torque law returns ret
ContractError(r, ret) == _fdyn(r, [args EXCEPT !.torqfun = "law"], ret).error

\* C14: the error type of an fdyn run ended by a failed integrator differs
\* from the error type that a torque law's contract violation ends a run
\* with, so the caller can tell the two failures apart by type.
C14_DistinctFailureKinds ==
    \A p \in Flags :
        (runs[p].pc = "error" /\ runs[p].status = "failed") =>
            \A ret \in TauReturns(args.self.n) :
                BadTorque(ret, args.self.n) =>
                    ContractError(runs[p], ret) # runs[p].error

\* C20: an fdyn run without dt that returns gives as first sample time 0
\* and the state [q0; qd0], one sample more than integrator steps taken,
\* in the order of the steps, with strictly increasing times the last of
\* which is T.
C20_SamplesOfSteps ==
    \A p \in Flags :
        (runs[p].pc = "done" /\ ~args.dtGiven) =>
            LET res == runs[p].result
                k == Len(res.t)
            IN  /\ k = 1 + runs[p].nstep
                /\ res.t[1] = 0
                /\ res.q[1] \o res.qd[1] = [j \in 1..Len(X0) |-> RatOfInt(X0[j])]
                /\ res.t = runs[p].tlist
                /\ \A i \in 1..(k - 1) : res.t[i] < res.t[i + 1]
                /\ res.t[k] = args.T

(***************************************************************************)
(* Properties of the operations' calls.                                    *)
(***************************************************************************)
\* a vector of d elements: a list or an array of shape (d,), (d, 1), (1, d)
IsVector(a, d) ==
    \/ a.kind = "list" /\ a.shape = <<d>>
    \/ a.kind = "ndarray" /\ a.shape \in {<<d>>, <<d, 1>>, <<1, d>>}

\* a batch of m vectors of d elements: an array of shape (d, m)
IsBatch(a, d, m) == a.kind = "ndarray" /\ a.shape = <<d, m>>

IsNone(a) == a.kind = "None"

\* batch widths an argument can have
Widths == 1..(MaxBatch + 1)

\* every argument the operation reads has a shape and type that its
\* docstring admits
WellShaped(c) ==
    LET n == c.self.n
        v == c.argv
        AllVectors(d) == \A i \in 1..Len(v) : IsVector(v[i], d)
        AllBatches(d) == \E m \in Widths : \A i \in 1..Len(v) : IsBatch(v[i], d, m)
    IN  CASE c.op \in {"accel", "inertia", "coriolis", "itorque"} ->
                 AllVectors(n) \/ AllBatches(n)
          [] c.op = "gravload" ->
                 \/ /\ IsNone(v[1]) \/ IsVector(v[1], n)
                    /\ IsNone(v[2]) \/ IsVector(v[2], 3)
                 \/ \E m \in Widths :
                        /\ IsBatch(v[1], n, m)
                        /\ IsNone(v[2]) \/ IsVector(v[2], 3) \/ IsBatch(v[2], 3, m)
          [] c.op = "pay" ->
                 \/ /\ IsVector(v[1], WrenchDim)
                    /\ \/ IsBatch(v[3], WrenchDim, n)
                       \/ IsNone(v[3]) /\ (IsNone(v[2]) \/ IsVector(v[2], n))
                 \/ \E m \in Widths :
                        /\ IsBatch(v[1], WrenchDim, m)
                        /\ IsNone(v[3])
                        /\ IsBatch(v[2], n, m)
          [] c.op = "paycap" ->
                 /\ IsBatch(v[2], n, 2)
                 /\ \/ /\ IsVector(v[1], WrenchDim)
                       /\ IsNone(v[3]) \/ IsVector(v[3], n)
                    \/ \E m \in Widths :
                           IsBatch(v[1], WrenchDim, m) /\ IsBatch(v[3], n, m)
          [] c.op = "fdyn" ->
                 /\ v[1].kind = "scalar"
                 /\ IsVector(v[2], n)
                 /\ IsNone(v[3]) \/ IsVector(v[3], n)
                 /\ IsNone(v[4]) \/ v[4].kind = "callable"

JointVectorArgs(c) ==
    CASE c.op \in {"accel", "inertia", "coriolis", "itorque"} -> 1..Len(c.argv)
      [] c.op = "gravload" -> {1}
      [] c.op = "paycap" -> {3}
      [] OTHER -> {}

\* a one-dimensional array or a list whose length is not n
WrongLength(a, n) ==
    a.kind \in {"list", "ndarray"} /\ Len(a.shape) = 1 /\ a.shape[1] # n

\* C13: a wrong-length joint vector given to accel, inertia, coriolis,
\* itorque, gravload or paycap is reported as a ValueError and as no other
\* kind of error.
C13_WrongLengthIsValueError ==
    (call.pc # "idle"
     /\ \E i \in JointVectorArgs(call) : WrongLength(call.argv[i], call.self.n))
        => call.pc = "error" /\ call.error = "ValueError"

\* the columns of an argument: the configurations it holds
Columns(a) ==
    IF Len(a.shape) = 2 /\ a.shape[1] # 1 THEN a.data ELSE <<Flat(a)>>

RECURSIVE RSumTo(_, _)
RSumTo(f, k) == IF k = 0 THEN RatOfInt(0) ELSE RAdd(RSumTo(f, k - 1), f[k])

\* the matrix-vector product C @ qd of a matrix of fractions
RMatVec(C, qd) ==
    [r \in 1..Len(C) |->
        RSumTo([cc \in 1..Len(qd) |-> RMul(C[r][cc], RatOfInt(qd[cc]))], Len(qd))]

\* the velocity-dependent torque of robot rob at (q, qd): its oracle at
\* zero acceleration and the robot's gravity, less the gravity torque
VelocityDependent(rob, q, qd) ==
    LET n == rob.n
    IN  [i \in 1..n |->
            RatOfInt(rne_c(rob, q, qd, Zeros(n), rob.gravity)[i]
                     - rne_c(rob, q, Zeros(n), Zeros(n), rob.gravity)[i])]

\* C15 as stated: coriolis(q, qd) @ qd is the velocity-dependent torque of
\* a direct oracle call on the robot at (q, qd, 0, gravity) less the
\* gravity torque.
C15_CoriolisTimesVelocity ==
    (call.pc = "done" /\ call.op = "coriolis") =>
        \A i \in 1..call.trajn :
            LET q == Columns(call.argv[1])[i]
                qd == Columns(call.argv[2])[i]
            IN  RMatVec(call.result[i], qd) = VelocityDependent(call.self, q, qd)

\* C15, amended: coriolis(q, qd) @ qd is the velocity-dependent torque of an
\* oracle call on the friction-free variant nofriction(True, True) of the
\* robot at (q, qd, 0, gravity) less the gravity torque; the robot's joint
\* friction, which its own oracle includes, is not part of it.
C15_FrictionFree ==
    (call.pc = "done" /\ call.op = "coriolis") =>
        \A i \in 1..call.trajn :
            LET q == Columns(call.argv[1])[i]
                qd == Columns(call.argv[2])[i]
            IN  RMatVec(call.result[i], qd) =
                    VelocityDependent(nofriction_links(call.self, TRUE, TRUE), q, qd)

\* coriolis on a robot with friction at a velocity with two non-zero
\* components, where the matrix has a non-zero off-diagonal entry
C15_Witness ==
    /\ call.pc = "done"
    /\ call.op = "coriolis"
    /\ call.self.links[1].B # 0
    /\ \A j \in 1..call.self.n : Columns(call.argv[2])[1][j] # 0
    /\ call.result[1][1][2].num # 0

\* C16: the acceleration that accel returns for (q, qd, torque), put back
\* into the oracle at (q, qd, qdd) with the robot's gravity, gives torque.
C16_AccelRoundTrip ==
    (call.pc = "done" /\ call.op = "accel") =>
        \A i \in 1..call.trajn :
            rne(call.self.n, Columns(call.argv[1])[i], Columns(call.argv[2])[i],
                call.result[i], call.self.gravity)
                = Columns(call.argv[3])[i]

\* accel on a batch, under gravity, with a non-zero acceleration as result
C16_Witness ==
    /\ call.pc = "done"
    /\ call.op = "accel"
    /\ call.trajn > 1
    /\ call.self.gravity[3] # 0
    /\ call.result[2] # Zeros(call.self.n)

\* the value of a finite float
FEqualsInt(x, v) == x.k = "fin" /\ x.num = v /\ x.den = 1

C18_GravloadBatch ==
    LET n == call.self.n
        q == call.argv[1]
        grav == call.argv[2]
        g == IF IsNone(grav) THEN call.self.gravity ELSE Flat(grav)
    IN  (call.pc # "idle" /\ call.op = "gravload"
         /\ \E m \in 2..MaxBatch : IsBatch(q, n, m)
         /\ (IsNone(grav) \/ IsVector(grav, 3))) =>
            /\ call.pc = "done"
            /\ Len(call.result) = q.shape[2]
            /\ \A i \in 1..q.shape[2] :
                   call.result[i] = rne(n, q.data[i], Zeros(n), Zeros(n), g)

====
